---- MODULE Spec2Model ----
(***************************************************************************)
(* The boilerplate generator: POST /api/generate (validation, daily rate   *)
(* limit, global cache lookup, LLM generation, archive upload, record      *)
(* save), GET /api/stats and the dashboard page, over one table of         *)
(* generation records.  Handlers are async: each await is a point where    *)
(* other requests interleave, so each handler is cut at its awaits.        *)
(***************************************************************************)
EXTENDS Integers, Sequences, FiniteSets, TLC

(***************************************************************************)
(* Bounds of the model.                                                    *)
(***************************************************************************)
NReq == 2          \* generate requests in one behaviour
MaxDay == 1        \* midnights the clock may pass
MaxRun == 2        \* scenarios the QA runner goes through in one run

(***************************************************************************)
(* Program constants.                                                      *)
(***************************************************************************)
MAX_DAILY_GENERATIONS == 15
MAX_PROMPT_LENGTH == 600
DayLen == 86400000                   \* milliseconds from one midnight to the next

Req == 1..NReq
Users == {"u1", "u2"}
NoUser == "null"                     \* auth() gave no userId
Envs == {"development", "production"}
EmptyUrl == 0                        \* the URL ""
NoTemplate == [id |-> 0, s3Url |-> EmptyUrl]   \* globalTemplate = null

(***************************************************************************)
(* Strings are sequences of characters.                                    *)
(***************************************************************************)
Whitespace == {" ", "\t"}

UpperCase ==
    <<"A", "B", "C", "D", "E", "F", "G", "H", "I", "J", "K", "L", "M", "N",
      "O", "P", "Q", "R", "S", "T", "U", "V", "W", "X", "Y", "Z">>
LowerCase ==
    <<"a", "b", "c", "d", "e", "f", "g", "h", "i", "j", "k", "l", "m", "n",
      "o", "p", "q", "r", "s", "t", "u", "v", "w", "x", "y", "z">>

\* the lower-case letter of an upper-case letter, and the reverse
Lower ==
    [c \in {UpperCase[i] : i \in DOMAIN UpperCase} |->
        LowerCase[CHOOSE i \in DOMAIN UpperCase : UpperCase[i] = c]]
Upper ==
    [c \in {LowerCase[i] : i \in DOMAIN LowerCase} |->
        UpperCase[CHOOSE i \in DOMAIN LowerCase : LowerCase[i] = c]]

ToLowerChar(c) == IF c \in DOMAIN Lower THEN Lower[c] ELSE c
ToUpperChar(c) == IF c \in DOMAIN Upper THEN Upper[c] ELSE c

toLowerCase(s) == [i \in 1..Len(s) |-> ToLowerChar(s[i])]
toUpperCase(s) == [i \in 1..Len(s) |-> ToUpperChar(s[i])]

\* (a variant that looks at the start of the string only)
startsWith(s, k) == Len(k) <= Len(s) /\ SubSeq(s, 1, Len(k)) = k

\* String.prototype.includes: k occurs somewhere in s
includes(s, k) ==
    \E i \in 1..(Len(s) - Len(k) + 1) : SubSeq(s, i, i + Len(k) - 1) = k

\* String.prototype.trim: what lies between the first and the last character
\* that is not white space
trim(s) ==
    LET keep == {i \in 1..Len(s) : s[i] \notin Whitespace}
    IN  IF keep = {} THEN <<>>
        ELSE SubSeq(s, CHOOSE i \in keep : \A j \in keep : i <= j,
                       CHOOSE i \in keep : \A j \in keep : j <= i)

\* (a variant that forgets toLowerCase)
CleanPromptKeepCase(s) == trim(s)

\* const cleanPrompt = prompt.trim().toLowerCase();
CleanPrompt(s) == toLowerCase(trim(s))

Repeat(c, n) == [i \in 1..n |-> c]

(***************************************************************************)
(* Request bodies: the JSON value of the "prompt" field.                   *)
(***************************************************************************)
Str(s) == [kind |-> "string", val |-> s]
Padded(s, n) == Repeat(" ", n - Len(s)) \o s   \* s after leading blanks, n long
Bodies ==
    { Str(<<"g", "o">>),
      Str(Padded(<<"G", "o">>, MAX_PROMPT_LENGTH)),
      Str(<<" ", "\t">>),
      Str(<<>>),
      Str(Padded(<<"G", "o">>, MAX_PROMPT_LENGTH + 1)),
      [kind |-> "undefined", val |-> <<>>],
      [kind |-> "number", val |-> <<>>] }

(***************************************************************************)
(* qa-runner.js: the prompts of the popular stacks.                        *)
(***************************************************************************)
SCENARIOS ==
    << \* "Node.js (TypeScript), Express, MongoDB (Mongoose), Include Docker"
       <<"N", "o", "d", "e", ".", "j", "s", " ", "(", "T", "y", "p", "e",
         "S", "c", "r", "i", "p", "t", ")", ",", " ", "E", "x", "p", "r",
         "e", "s", "s", ",", " ", "M", "o", "n", "g", "o", "D", "B", " ",
         "(", "M", "o", "n", "g", "o", "o", "s", "e", ")", ",", " ", "I",
         "n", "c", "l", "u", "d", "e", " ", "D", "o", "c", "k", "e", "r">>,
       \* "Node.js (TypeScript), NestJS, PostgreSQL (Prisma), Include Docker"
       <<"N", "o", "d", "e", ".", "j", "s", " ", "(", "T", "y", "p", "e",
         "S", "c", "r", "i", "p", "t", ")", ",", " ", "N", "e", "s", "t",
         "J", "S", ",", " ", "P", "o", "s", "t", "g", "r", "e", "S", "Q",
         "L", " ", "(", "P", "r", "i", "s", "m", "a", ")", ",", " ", "I",
         "n", "c", "l", "u", "d", "e", " ", "D", "o", "c", "k", "e", "r">>,
       \* "Python, FastAPI, PostgreSQL (Prisma), Include Docker"
       <<"P", "y", "t", "h", "o", "n", ",", " ", "F", "a", "s", "t", "A",
         "P", "I", ",", " ", "P", "o", "s", "t", "g", "r", "e", "S", "Q",
         "L", " ", "(", "P", "r", "i", "s", "m", "a", ")", ",", " ", "I",
         "n", "c", "l", "u", "d", "e", " ", "D", "o", "c", "k", "e", "r">>,
       \* "Python, Django, PostgreSQL (SQLAlchemy), Include Docker"
       <<"P", "y", "t", "h", "o", "n", ",", " ", "D", "j", "a", "n", "g",
         "o", ",", " ", "P", "o", "s", "t", "g", "r", "e", "S", "Q", "L",
         " ", "(", "S", "Q", "L", "A", "l", "c", "h", "e", "m", "y", ")",
         ",", " ", "I", "n", "c", "l", "u", "d", "e", " ", "D", "o", "c",
         "k", "e", "r">>,
       \* "Go (Golang), Gin, Redis, Include Docker"
       <<"G", "o", " ", "(", "G", "o", "l", "a", "n", "g", ")", ",", " ",
         "G", "i", "n", ",", " ", "R", "e", "d", "i", "s", ",", " ", "I",
         "n", "c", "l", "u", "d", "e", " ", "D", "o", "c", "k", "e", "r">> >>

\* prompts that name technologies: the popular stacks, and prompts for the
\* other keys of TECH_RULES, for "express" and "nest", and for no key
RuleBodies ==
    {Str(SCENARIOS[i]) : i \in DOMAIN SCENARIOS}
    \cup
    { \* "Express, MongoDB"
      Str(<<"E", "x", "p", "r", "e", "s", "s", ",", " ", "M", "o", "n",
            "g", "o", "D", "B">>),
      \* "Nest"
      Str(<<"N", "e", "s", "t">>),
      \* "Py"
      Str(<<"P", "y">>),
      \* "C# (.NET), Java (Spring)"
      Str(<<"C", "#", " ", "(", ".", "N", "E", "T", ")", ",", " ", "J",
            "a", "v", "a", " ", "(", "S", "p", "r", "i", "n", "g", ")">>),
      \* "Ruby, PHP, Rust, Kotlin, Swift, Elixir"
      Str(<<"R", "u", "b", "y", ",", " ", "P", "H", "P", ",", " ", "R",
            "u", "s", "t", ",", " ", "K", "o", "t", "l", "i", "n", ",",
            " ", "S", "w", "i", "f", "t", ",", " ", "E", "l", "i", "x",
            "i", "r">>),
      \* "GraphQL, Swagger, Worker, Terraform, Vector DB"
      Str(<<"G", "r", "a", "p", "h", "Q", "L", ",", " ", "S", "w", "a",
            "g", "g", "e", "r", ",", " ", "W", "o", "r", "k", "e", "r",
            ",", " ", "T", "e", "r", "r", "a", "f", "o", "r", "m", ",",
            " ", "V", "e", "c", "t", "o", "r", " ", "D", "B">>),
      \* "Redis"
      Str(<<"R", "e", "d", "i", "s">>) }

\* (a variant that lets one character more through)
PromptTooLongOffByOne(body) == Len(body.val) > MAX_PROMPT_LENGTH + 1

\* !prompt || typeof prompt !== 'string'
InvalidPrompt(body) == body.kind # "string" \/ body.val = <<>>
\* prompt.length > MAX_PROMPT_LENGTH
PromptTooLong(body) == Len(body.val) > MAX_PROMPT_LENGTH

(***************************************************************************)
(* The template table.  A record's id is its index in db.                  *)
(***************************************************************************)
Template(id, prompt, s3Url, userId, createdAt) ==
    [id |-> id, prompt |-> prompt, s3Url |-> s3Url, downloads |-> 1,
     userId |-> userId, createdAt |-> createdAt]

\* (a variant with a uniqueness constraint on the prompt)
CreateUnique(table, prompt, s3Url, userId, t) ==
    IF \E i \in 1..Len(table) : table[i].prompt = prompt
    THEN table
    ELSE Append(table, Template(Len(table) + 1, prompt, s3Url, userId, t))

\* prisma.template.create({data: {prompt, s3Url, downloads: 1, userId}})
Create(table, prompt, s3Url, userId, t) ==
    Append(table, Template(Len(table) + 1, prompt, s3Url, userId, t))

\* (a variant that counts down)
IncrementDown(table, id) ==
    [table EXCEPT ![id].downloads = @ - 1]

\* prisma.template.update({where: {id}, data: {downloads: {increment: 1}}})
Increment(table, id) ==
    [table EXCEPT ![id].downloads = @ + 1]

\* today.setHours(0, 0, 0, 0)
Midnight(t) == t - (t % DayLen)

\* prisma.template.count({where: {userId, createdAt: {gte: today}}})
Count(table, userId, today) ==
    Cardinality({i \in 1..Len(table) :
                    table[i].userId = userId /\ table[i].createdAt >= today})

\* where: {prompt: cleanPrompt, s3Url: {not: ""}}
Matches(table, prompt) ==
    {i \in 1..Len(table) : table[i].prompt = prompt /\ table[i].s3Url # EmptyUrl}

\* (a variant that forgets the prompt in the where clause)
FindFirstAnyPrompt(table, prompt) ==
    {i \in 1..Len(table) :
        /\ table[i].s3Url # EmptyUrl
        /\ \A j \in 1..Len(table) : table[j].createdAt <= table[i].createdAt}

\* findFirst({where, orderBy: {createdAt: 'desc'}}): the rows it may return
\* (rows with equal createdAt come in no defined order)
FindFirst(table, prompt) ==
    {i \in Matches(table, prompt) :
        \A j \in Matches(table, prompt) : table[j].createdAt <= table[i].createdAt}

\* (a variant that counts the rows)
SumDownloadsRows(table) == Len(table)

\* prisma.template.aggregate({_sum: {downloads: true}})
RECURSIVE SumDownloads(_)
SumDownloads(table) ==
    IF table = <<>> THEN 0
    ELSE Head(table).downloads + SumDownloads(Tail(table))

\* prisma.template.findMany({where: {userId}, orderBy: {createdAt: 'desc'}}):
\* the orders it may return
RECURSIVE NewestFirst(_, _)
NewestFirst(table, ids) ==
    IF ids = {} THEN {<<>>}
    ELSE UNION { {<<i>> \o s : s \in NewestFirst(table, ids \ {i})} :
                 i \in {k \in ids :
                          \A j \in ids : table[j].createdAt <= table[k].createdAt} }

\* (a variant that forgets the where clause)
FindManyAnyOwner(table, userId) ==
    NewestFirst(table, 1..Len(table))

FindMany(table, userId) ==
    NewestFirst(table, {i \in 1..Len(table) : table[i].userId = userId})

(***************************************************************************)
(* The table a server may start with: empty, or the rows left by one user  *)
(* who asked for the same stack SeedSize times, a millisecond apart: one   *)
(* fresh generation followed by cache hits.                                *)
(***************************************************************************)
SeedSize == MAX_DAILY_GENERATIONS - 1
SeedPrompt == <<"p", "y">>

RECURSIVE SeedRun(_, _)
SeedRun(table, k) ==
    IF k = SeedSize THEN table
    ELSE LET found == FindFirst(table, SeedPrompt)
         IN  IF found = {}
             THEN SeedRun(Create(table, SeedPrompt, 1, "u1", k), k + 1)  \* uuid 1
             ELSE LET g == CHOOSE i \in found : TRUE
                  IN  SeedRun(Create(Increment(table, g), SeedPrompt,
                                     table[g].s3Url, "u1", k), k + 1)

SeedDb == SeedRun(<<>>, 0)
StartTime == SeedSize                \* the time of day the model starts at

(***************************************************************************)
(* State.                                                                  *)
(***************************************************************************)
VARIABLES
    db,        \* the template table
    now,       \* the clock, in milliseconds
    env,       \* process.env.NODE_ENV
    req,       \* the generate requests: locals, position, the rows of the table
               \* on arrival, calls made, response
    pending,   \* writes a cache hit started and did not await
    nextUuid,  \* crypto.randomUUID(): the next unused value
    page,      \* the last answer of GET /api/stats or of the dashboard
    qa         \* qa-runner.js: position in SCENARIOS, errors.length, summary

vars == <<db, now, env, req, pending, nextUuid, page, qa>>

NoResp == [status |-> 0, error |-> "", url |-> EmptyUrl, cached |-> FALSE]
Json(url, cached) == [status |-> 200, error |-> "", url |-> url, cached |-> cached]
Error(msg, status) == [status |-> status, error |-> msg, url |-> EmptyUrl, cached |-> FALSE]

Idle ==
    [pc |-> "idle", userId |-> NoUser, body |-> [kind |-> "undefined", val |-> <<>>],
     cleanPrompt |-> <<>>, today |-> 0, dbAvailable |-> TRUE,
     globalTemplate |-> NoTemplate, specificRules |-> <<>>,
     content |-> "none", fileName |-> EmptyUrl,
     uploadError |-> "none", saved |-> FALSE,
     arrived |-> 0, llmCalls |-> 0, uploads |-> 0, dbReads |-> 0, dbWrites |-> 0,
     resp |-> NoResp]

NoPage == [kind |-> "none", status |-> 0, count |-> 0, userId |-> NoUser, projects |-> <<>>]

Init ==
    /\ \E w \in {<<<<>>, "production">>, <<SeedDb, "production">>,
                  <<SeedDb, "development">>} :
         db = w[1] /\ env = w[2]
    /\ now = StartTime
    /\ req = [r \in Req |-> Idle]
    /\ pending = {}
    /\ nextUuid = 2
    /\ page = NoPage
    /\ qa = [pc |-> "run", index |-> 1, errors |-> 0, summary |-> "none"]

(***************************************************************************)
(* The rules of the system prompt.  TECH_RULES maps a technology to a text *)
(* of instructions; the 23 texts are pairwise different, and none occurs   *)
(* inside another or in the fixed part of the system prompt, so a text is  *)
(* modelled by the key it is stored under.                                 *)
(***************************************************************************)
mongodb == <<"m", "o", "n", "g", "o", "d", "b">>
postgres == <<"p", "o", "s", "t", "g", "r", "e", "s">>
node == <<"n", "o", "d", "e">>
typescript == <<"t", "y", "p", "e", "s", "c", "r", "i", "p", "t">>
nestjs == <<"n", "e", "s", "t", "j", "s">>
python == <<"p", "y", "t", "h", "o", "n">>
django == <<"d", "j", "a", "n", "g", "o">>
csharp == <<"c", "#">>
java == <<"j", "a", "v", "a">>
go == <<"g", "o">>
ruby == <<"r", "u", "b", "y">>
php == <<"p", "h", "p">>
rust == <<"r", "u", "s", "t">>
kotlin == <<"k", "o", "t", "l", "i", "n">>
swift == <<"s", "w", "i", "f", "t">>
elixir == <<"e", "l", "i", "x", "i", "r">>
graphql == <<"g", "r", "a", "p", "h", "q", "l">>
swagger == <<"s", "w", "a", "g", "g", "e", "r">>
worker == <<"w", "o", "r", "k", "e", "r">>
terraform == <<"t", "e", "r", "r", "a", "f", "o", "r", "m">>
vector == <<"v", "e", "c", "t", "o", "r">>
prisma == <<"p", "r", "i", "s", "m", "a">>
docker == <<"d", "o", "c", "k", "e", "r">>
express == <<"e", "x", "p", "r", "e", "s", "s">>
nest == <<"n", "e", "s", "t">>
VECTOR_DB == <<"V", "E", "C", "T", "O", "R", "_", "D", "B">>

\* Object.keys(TECH_RULES), in the order of the object literal
TechKeys ==
    <<mongodb, postgres, node, typescript, nestjs, python, django, csharp,
      java, go, ruby, php, rust, kotlin, swift, elixir, graphql,
      swagger, worker, terraform, vector, prisma, docker>>

TECH_RULES == [tech \in {TechKeys[i] : i \in DOMAIN TechKeys} |-> <<"rule text", tech>>]

\* `\n### RULE FOR ${header}:${TECH_RULES[tech]}`
Rule(header, tech) == [header |-> header, text |-> TECH_RULES[tech]]

\* Object.keys(TECH_RULES).forEach((tech) => {
\*   if (cleanPrompt.includes(tech.toLowerCase())) specificRules += ... })
KeyRules(cleanPrompt) ==
    LET found == SelectSeq(TechKeys,
                           LAMBDA tech : includes(cleanPrompt, toLowerCase(tech)))
    IN  [i \in 1..Len(found) |-> Rule(toUpperCase(found[i]), found[i])]

\* if (cond) specificRules += rules
When(cond, rules) == IF cond THEN rules ELSE <<>>

\* specificRules, as ${specificRules} places it in the system prompt: the
\* loop over the keys, then the manual triggers
SpecificRules(cleanPrompt) ==
    KeyRules(cleanPrompt)
    \o When(includes(cleanPrompt, graphql), <<Rule(toUpperCase(graphql), graphql)>>)
    \o When(includes(cleanPrompt, swagger), <<Rule(toUpperCase(swagger), swagger)>>)
    \o When(includes(cleanPrompt, worker), <<Rule(toUpperCase(worker), worker)>>)
    \o When(includes(cleanPrompt, terraform),
            <<Rule(toUpperCase(terraform), terraform)>>)
    \o When(includes(cleanPrompt, vector), <<Rule(VECTOR_DB, vector)>>)
    \o When(\/ includes(cleanPrompt, node) \/ includes(cleanPrompt, typescript)
            \/ includes(cleanPrompt, express) \/ includes(cleanPrompt, nest),
            <<Rule(toUpperCase(typescript), typescript),
              Rule(toUpperCase(node), node)>>)
    \o When(includes(cleanPrompt, nest), <<Rule(toUpperCase(nestjs), nestjs)>>)
    \o When(includes(cleanPrompt, django), <<Rule(toUpperCase(django), django)>>)

(***************************************************************************)
(* POST /api/generate                                                      *)
(***************************************************************************)
\* the rules are collected and openai.chat.completions.create(...) is called:
\* the cache missed
AskOpenAI(q) ==
    [q EXCEPT !.pc = "llm", !.llmCalls = @ + 1,
              !.specificRules = SpecificRules(q.cleanPrompt)]

\* (a variant that swallows the error and answers as if generated)
FailedSilently(q) == [q EXCEPT !.pc = "done", !.resp = Json(q.fileName, FALSE)]

\* the catch at the end of the handler
Failed(q) == [q EXCEPT !.pc = "done", !.resp = Error("Failed to generate project", 500)]

\* auth(), req.json(), the two validations, cleanPrompt, and the first
\* database call: the count for a signed-in user, else the cache lookup
Start(r, userId, body) ==
    /\ req[r].pc = "idle"
    /\ \A k \in Req : k < r => req[k].pc # "idle"
    /\ LET q == [req[r] EXCEPT !.userId = userId, !.body = body, !.arrived = Len(db)]
       IN  req' = [req EXCEPT ![r] =
             IF InvalidPrompt(body)
             THEN [q EXCEPT !.pc = "done", !.resp = Error("Invalid prompt", 400)]
             ELSE IF PromptTooLong(body)
             THEN [q EXCEPT !.pc = "done", !.resp = Error("Prompt too long", 400)]
             ELSE [q EXCEPT !.cleanPrompt = CleanPrompt(body.val),
                            !.today = IF userId # NoUser THEN Midnight(now) ELSE @,
                            !.dbReads = 1,
                            !.pc = IF userId # NoUser THEN "count" ELSE "lookup"]]
    /\ UNCHANGED <<db, now, env, pending, nextUuid, page, qa>>

\* (a variant that compares with > )
LimitReachedAbove(count) ==
    env # "development" /\ count > MAX_DAILY_GENERATIONS

\* the rate limit: count >= MAX_DAILY_GENERATIONS outside development
LimitReached(count) ==
    env # "development" /\ count >= MAX_DAILY_GENERATIONS

\* prisma.template.count settles
CountReturn(r) ==
    /\ req[r].pc = "count"
    /\ \E dbOk \in BOOLEAN :
         req' = [req EXCEPT ![r] =
           IF ~dbOk
           THEN AskOpenAI([@ EXCEPT !.dbAvailable = FALSE])
           ELSE IF LimitReached(Count(db, @.userId, @.today))
           THEN [@ EXCEPT !.pc = "done", !.resp = Error("Daily limit reached", 429)]
           ELSE [@ EXCEPT !.pc = "lookup", !.dbReads = @ + 1]]
    /\ UNCHANGED <<db, now, env, pending, nextUuid, page, qa>>

\* the writes of a cache hit, started and not awaited
HitWrites(r, q) ==
    IF ~q.dbAvailable THEN {}
    ELSE {[req |-> r, op |-> "update", id |-> q.globalTemplate.id,
           prompt |-> <<>>, s3Url |-> EmptyUrl, userId |-> NoUser]}
         \cup
         (IF q.userId # NoUser
          THEN {[req |-> r, op |-> "create", id |-> 0, prompt |-> q.cleanPrompt,
                 s3Url |-> q.globalTemplate.s3Url, userId |-> q.userId]}
          ELSE {})

\* if (globalTemplate) {...}
CacheHit(r, q) ==
    [q EXCEPT !.pc = "done",
              !.dbWrites = @ + Cardinality(HitWrites(r, q)),
              !.resp = Json(q.globalTemplate.s3Url, TRUE)]

\* (a variant whose lookup sees the requester's own records only)
LookupReturnOwnRecords(r) ==
    /\ req[r].pc = "lookup"
    /\ LET own == {i \in FindFirst(db, req[r].cleanPrompt) :
                      db[i].userId = req[r].userId}
       IN  \/ /\ req' = [req EXCEPT ![r] = AskOpenAI([@ EXCEPT !.dbAvailable = FALSE])]
              /\ UNCHANGED pending
           \/ /\ own = {}
              /\ req' = [req EXCEPT ![r] = AskOpenAI(@)]
              /\ UNCHANGED pending
           \/ \E i \in own :
                LET q == [req[r] EXCEPT
                            !.globalTemplate = [id |-> db[i].id, s3Url |-> db[i].s3Url]]
                IN  /\ req' = [req EXCEPT ![r] = CacheHit(r, q)]
                    /\ pending' = pending \cup HitWrites(r, q)
    /\ UNCHANGED <<db, now, env, nextUuid, page, qa>>

\* prisma.template.findFirst settles
LookupReturn(r) ==
    /\ req[r].pc = "lookup"
    /\ \/ /\ req' = [req EXCEPT ![r] = AskOpenAI([@ EXCEPT !.dbAvailable = FALSE])]
          /\ UNCHANGED pending
       \/ /\ FindFirst(db, req[r].cleanPrompt) = {}
          /\ req' = [req EXCEPT ![r] = AskOpenAI(@)]
          /\ UNCHANGED pending
       \/ \E i \in FindFirst(db, req[r].cleanPrompt) :
            LET q == [req[r] EXCEPT
                        !.globalTemplate = [id |-> db[i].id, s3Url |-> db[i].s3Url]]
            IN  /\ req' = [req EXCEPT ![r] = CacheHit(r, q)]
                /\ pending' = pending \cup HitWrites(r, q)
    /\ UNCHANGED <<db, now, env, nextUuid, page, qa>>

\* completion.choices[0].message.content: the call throws, the content is
\* empty, is not JSON, is JSON without a root object, or is a file tree
LlmOutcomes == {"throws", "empty", "not json", "no root", "ok"}

\* the completion settles; JSON.parse, the zip, randomUUID, and the upload starts
LlmReturn(r) ==
    /\ req[r].pc = "llm"
    /\ \E out \in LlmOutcomes :
         IF out = "ok"
         THEN /\ req' = [req EXCEPT ![r] = [@ EXCEPT !.pc = "upload",
                                                     !.content = out,
                                                     !.fileName = nextUuid,
                                                     !.uploads = @ + 1]]
              /\ nextUuid' = nextUuid + 1
         ELSE /\ req' = [req EXCEPT ![r] = Failed([@ EXCEPT !.content = out])]
              /\ UNCHANGED nextUuid
    /\ UNCHANGED <<db, now, env, pending, page, qa>>

\* getPublicUrl(fileName).publicUrl
PublicUrl(fileName) == fileName

\* (a variant that saves whatever dbAvailable says)
UploadReturnAlwaysSaves(r) ==
    /\ req[r].pc = "upload"
    /\ \/ req' = [req EXCEPT ![r] = Failed([@ EXCEPT !.uploadError = "error"])]
       \/ req' = [req EXCEPT ![r] =
            [@ EXCEPT !.uploadError = "null", !.pc = "save", !.dbWrites = @ + 1]]
    /\ UNCHANGED <<db, now, env, pending, nextUuid, page, qa>>

\* the upload settles; the record is saved when the database is available
UploadReturn(r) ==
    /\ req[r].pc = "upload"
    /\ \/ req' = [req EXCEPT ![r] = Failed([@ EXCEPT !.uploadError = "error"])]
       \/ req' = [req EXCEPT ![r] =
            IF @.dbAvailable
            THEN [@ EXCEPT !.uploadError = "null", !.pc = "save", !.dbWrites = @ + 1]
            ELSE [@ EXCEPT !.uploadError = "null", !.pc = "done",
                           !.resp = Json(PublicUrl(req[r].fileName), FALSE)]]
    /\ UNCHANGED <<db, now, env, pending, nextUuid, page, qa>>

\* prisma.template.create settles (a failure is logged and ignored)
SaveReturn(r) ==
    /\ req[r].pc = "save"
    /\ \E created \in BOOLEAN :
         /\ db' = IF created
                  THEN Create(db, req[r].cleanPrompt, PublicUrl(req[r].fileName),
                              req[r].userId, now)
                  ELSE db
         /\ req' = [req EXCEPT ![r] =
                      [@ EXCEPT !.pc = "done", !.saved = created,
                                !.resp = Json(PublicUrl(req[r].fileName), FALSE)]]
    /\ UNCHANGED <<now, env, pending, nextUuid, page, qa>>

\* a write of a cache hit reaches the database, or fails: .catch(() => {})
Apply(table, w, t) ==
    IF w.op = "update" THEN Increment(table, w.id)
    ELSE Create(table, w.prompt, w.s3Url, w.userId, t)

Background(w) ==
    /\ w \in pending
    /\ pending' = pending \ {w}
    /\ \/ db' = Apply(db, w, now)
       \/ UNCHANGED db
    /\ UNCHANGED <<now, env, req, nextUuid, page, qa>>

(***************************************************************************)
(* GET /api/stats and the dashboard page                                   *)
(***************************************************************************)
Stats ==
    /\ \/ page' = [NoPage EXCEPT !.kind = "stats", !.status = 200,
                                 !.count = SumDownloads(db)]
       \/ page' = [NoPage EXCEPT !.kind = "stats", !.status = 500]
    /\ UNCHANGED <<db, now, env, req, pending, nextUuid, qa>>

Dashboard(userId) ==
    /\ IF userId = NoUser
       THEN page' = [NoPage EXCEPT !.kind = "redirect"]
       ELSE \/ \E projects \in FindMany(db, userId) :
               page' = [NoPage EXCEPT !.kind = "dashboard", !.status = 200,
                                      !.userId = userId, !.projects = projects]
            \/ page' = [NoPage EXCEPT !.kind = "error", !.status = 500,
                                      !.userId = userId]
    /\ UNCHANGED <<db, now, env, req, pending, nextUuid, qa>>

(***************************************************************************)
(* qa-runner.js: runTest() posts each scenario to /api/generate, one after *)
(* the other, as an anonymous client, and builds what it gets.  Request 1  *)
(* is the runner's exchange in progress.                                   *)
(***************************************************************************)
\* for (const [index, prompt] of SCENARIOS.entries()), cut at the bound
Scenarios == SubSeq(SCENARIOS, 1, MaxRun)

Digit == <<"0", "1", "2", "3", "4", "5", "6", "7", "8", "9">>

\* `${n}` for a number n >= 0
RECURSIVE Decimal(_)
Decimal(n) ==
    IF n < 10 THEN <<Digit[n + 1]>>
    ELSE Decimal(n \div 10) \o <<Digit[(n % 10) + 1]>>

\* const uniquePrompt = `${prompt} --qa-${Date.now()}`;
UniquePrompt(prompt, t) == prompt \o <<" ", "-", "-", "q", "a", "-">> \o Decimal(t)

\* await fetch(BASE_URL, {method: "POST", body: JSON.stringify({prompt: uniquePrompt})})
QaSend ==
    /\ qa.pc = "run"
    /\ Start(1, NoUser, Str(UniquePrompt(Scenarios[qa.index], now)))

\* the response arrives: no url is an error; else the archive is fetched,
\* extracted and built, and a failure of any of these is an error.  After
\* the last scenario the summary is logged.
QaReceive ==
    /\ qa.pc = "run"
    /\ req[1].pc = "done"
    /\ \E built \in BOOLEAN :
         LET failed == req[1].resp.url = EmptyUrl \/ ~built
             errors == IF failed THEN qa.errors + 1 ELSE qa.errors
         IN  /\ req[1].resp.url = EmptyUrl => built
             /\ IF qa.index < Len(Scenarios)
                THEN /\ qa' = [qa EXCEPT !.index = @ + 1, !.errors = errors]
                     /\ req' = [req EXCEPT ![1] = Idle]
                ELSE /\ qa' = [qa EXCEPT !.pc = "done", !.errors = errors,
                                         !.summary = IF errors = 0 THEN "PERFECT"
                                                     ELSE "failures"]
                     /\ UNCHANGED req
    /\ UNCHANGED <<db, now, env, pending, nextUuid, page>>

(***************************************************************************)
(* The clock                                                               *)
(***************************************************************************)
\* time passes: the clock is moved to the next midnight
NextDay ==
    /\ now < MaxDay * DayLen
    /\ now' = Midnight(now) + DayLen
    /\ UNCHANGED <<db, env, req, pending, nextUuid, page, qa>>

\* the steps of a generate request after its first
Handler ==
    \/ \E r \in Req : CountReturn(r)
    \/ \E r \in Req : LookupReturn(r)
    \/ \E r \in Req : LlmReturn(r)
    \/ \E r \in Req : UploadReturn(r)
    \/ \E r \in Req : SaveReturn(r)
    \/ \E w \in pending : Background(w)

\* generate requests alone
Next ==
    \/ \E r \in Req, userId \in Users \cup {NoUser}, body \in Bodies :
         Start(r, userId, body)
    \/ Handler
    \/ NextDay

Spec == Init /\ [][Next]_vars

\* generate requests for one stack, with the stats and dashboard requests,
PageBodies == {Str(<<"g", "o">>)}

NextPages ==
    \/ \E r \in Req, userId \in Users \cup {NoUser}, body \in PageBodies :
         Start(r, userId, body)
    \/ Handler
    \/ NextDay
    \/ Stats
    \/ \E userId \in Users \cup {NoUser} : Dashboard(userId)

\* ... starting from the empty table
InitPages == Init /\ db = <<>>

SpecPages == InitPages /\ [][NextPages]_vars

\* one generate request whose prompt names technologies
NextRules ==
    \/ \E userId \in Users \cup {NoUser}, body \in RuleBodies : Start(1, userId, body)
    \/ Handler
    \/ NextDay

SpecRules == Init /\ [][NextRules]_vars

\* generate requests for the stack of the seeded table, written in two ways
CacheBodies == {Str(<<"P", "y">>), Str(<<" ", "p", "y">>)}

NextCache ==
    \/ \E r \in Req, userId \in Users \cup {NoUser}, body \in CacheBodies :
         Start(r, userId, body)
    \/ Handler
    \/ NextDay

SpecCache == Init /\ [][NextCache]_vars

\* a run of the QA runner against a server with an empty table, and one other
\* client who asks for a popular stack.  No two of these prompts are equal
\* once normalized, so no lookup hits and no write is ever pending.
NextQA ==
    \/ QaSend
    \/ QaReceive
    \/ \E userId \in Users \cup {NoUser}, i \in DOMAIN Scenarios :
         Start(2, userId, Str(Scenarios[i]))
    \/ \E r \in Req : CountReturn(r)
    \/ \E r \in Req : LookupReturn(r)
    \/ \E r \in Req : LlmReturn(r)
    \/ \E r \in Req : UploadReturn(r)
    \/ \E r \in Req : SaveReturn(r)

InitQA == Init /\ db = <<>>

SpecQA == InitQA /\ [][NextQA]_vars

(***************************************************************************)
(* Vocabulary of the properties                                            *)
(***************************************************************************)
Started(r) == req[r].pc # "idle"
Done(r) == req[r].pc = "done"
Answered(r, status) == Done(r) /\ req[r].resp.status = status

\* the request passed the two validations
Accepted(r) ==
    /\ Started(r)
    /\ req[r].body.kind = "string"
    /\ Len(req[r].body.val) \in 1..MAX_PROMPT_LENGTH

\* a prompt as the cache is meant to key it: without the white space around
\* it, letters in lower case
Blank(c) == c = " " \/ c = "\t"
Fold(c) ==
    CASE c = "A" -> "a" [] c = "B" -> "b" [] c = "C" -> "c" [] c = "D" -> "d"
      [] c = "E" -> "e" [] c = "F" -> "f" [] c = "G" -> "g" [] c = "H" -> "h"
      [] c = "I" -> "i" [] c = "J" -> "j" [] c = "K" -> "k" [] c = "L" -> "l"
      [] c = "M" -> "m" [] c = "N" -> "n" [] c = "O" -> "o" [] c = "P" -> "p"
      [] c = "Q" -> "q" [] c = "R" -> "r" [] c = "S" -> "s" [] c = "T" -> "t"
      [] c = "U" -> "u" [] c = "V" -> "v" [] c = "W" -> "w" [] c = "X" -> "x"
      [] c = "Y" -> "y" [] c = "Z" -> "z"
      [] OTHER -> c
Core(s) ==
    LET inked == {i \in 1..Len(s) : ~Blank(s[i])}
        first == CHOOSE i \in inked : \A j \in inked : i <= j
        last == CHOOSE i \in inked : \A j \in inked : i >= j
    IN  IF inked = {} THEN <<>>
        ELSE [i \in 1..(last - first + 1) |-> Fold(s[first + i - 1])]

\* Core of every body a request may carry
Normal == [b \in Bodies \cup RuleBodies \cup CacheBodies |-> Core(b.val)]

\* the rows stored for a prompt with a URL
StoredFor(prompt) ==
    {i \in 1..Len(db) : db[i].prompt = prompt /\ db[i].s3Url # EmptyUrl}

\* the request made no call at all
NoCalls(r) ==
    /\ req[r].dbReads = 0 /\ req[r].dbWrites = 0
    /\ req[r].llmCalls = 0 /\ req[r].uploads = 0

\* a step in which request r's cache lookup settles without a database error
LookupSettles(r) ==
    /\ req[r].pc = "lookup"
    /\ req'[r].pc # "lookup"
    /\ req'[r].dbAvailable

(***************************************************************************)
(* C1: a cache hit answers {url: the record's URL, cached: true} without   *)
(* an LLM call or an upload: a lookup that settles finds a record exactly  *)
(* when one is stored for the normalized prompt with a URL, and then the   *)
(* answer carries the URL of such a record.  In every 200 answer, cached   *)
(* is true exactly when the URL came from a stored record, and false       *)
(* exactly when the request called the LLM and uploaded an archive.        *)
(***************************************************************************)
C1_HitAnswer(r) ==
    Answered(r, 200) =>
       /\ req[r].resp.cached <=> req[r].globalTemplate # NoTemplate
       /\ req[r].resp.cached <=> ~(req[r].llmCalls > 0 /\ req[r].uploads > 0)
       /\ req[r].resp.cached =>
            /\ req[r].llmCalls = 0 /\ req[r].uploads = 0
            /\ req[r].resp.url # EmptyUrl
            /\ \E i \in StoredFor(Normal[req[r].body]) :
                 /\ i = req[r].globalTemplate.id
                 /\ db[i].s3Url = req[r].resp.url
       /\ ~req[r].resp.cached =>
            /\ req[r].llmCalls = 1 /\ req[r].uploads = 1
            /\ req[r].resp.url = req[r].fileName

C1_LookupStep(r) ==
    LookupSettles(r) =>
       IF StoredFor(Normal[req[r].body]) # {}
       THEN /\ req'[r].resp.status = 200
            /\ req'[r].resp.cached
            /\ \E i \in StoredFor(Normal[req[r].body]) :
                 req'[r].resp.url = db[i].s3Url
            /\ req'[r].llmCalls = 0 /\ req'[r].uploads = 0
       ELSE req'[r].pc = "llm" /\ req'[r].resp = NoResp

C1_CacheHit ==
    /\ [](\A r \in Req : C1_HitAnswer(r))
    /\ [][\A r \in Req : C1_LookupStep(r)]_vars

C1_Witness ==
    \E r \in Req :
       /\ Answered(r, 200) /\ req[r].resp.cached
       /\ req[r].body.val # req[r].cleanPrompt

(***************************************************************************)
(* C2: once a request has completed a fresh generation and its record is   *)
(* saved, every request that arrives later with a prompt that differs at   *)
(* most in letter case and surrounding white space, and that is not        *)
(* rejected and finds the database available, is answered cached: true     *)
(* with a URL stored for that prompt and never calls the LLM.              *)
(***************************************************************************)
\* r1 generated afresh and its row was in the table when r2 arrived
ArrivedAfterSave(r1, r2) ==
    /\ Answered(r1, 200) /\ ~req[r1].resp.cached /\ req[r1].saved
    /\ Started(r2)
    /\ \E i \in 1..req[r2].arrived : db[i].s3Url = req[r1].resp.url

C2_ServedFromCache ==
    \A r1, r2 \in Req :
       ( /\ r1 # r2
         /\ ArrivedAfterSave(r1, r2)
         /\ Accepted(r2)
         /\ Normal[req[r2].body] = Normal[req[r1].body]
         /\ req[r2].dbAvailable )
       => /\ req[r2].llmCalls = 0
          /\ Done(r2) => req[r2].resp.status \in {200, 429}
          /\ Answered(r2, 200) =>
               /\ req[r2].resp.cached
               /\ \E i \in StoredFor(Normal[req[r2].body]) :
                    db[i].s3Url = req[r2].resp.url

C2_Witness ==
    \E r1, r2 \in Req :
       /\ r1 # r2
       /\ ArrivedAfterSave(r1, r2)
       /\ req[r1].body.val # req[r2].body.val
       /\ Normal[req[r2].body] = Normal[req[r1].body]
       /\ Answered(r2, 200) /\ req[r2].resp.cached

(***************************************************************************)
(* C3: two requests for the same normalized prompt whose lookups both find *)
(* nothing both call the LLM, both upload and both insert: once both are   *)
(* answered and both inserts went through, the table holds two rows with   *)
(* that prompt and different URLs.                                         *)
(***************************************************************************)
\* the lookup of r settled and found nothing
Missed(r) ==
    /\ Accepted(r)
    /\ req[r].dbAvailable
    /\ req[r].globalTemplate = NoTemplate
    /\ \/ req[r].pc \in {"llm", "upload", "save"}
       \/ Done(r) /\ req[r].resp.status \in {200, 500}

TwoRows(r1, r2) ==
    \E i, j \in 1..Len(db) :
       /\ i # j
       /\ db[i].prompt = Normal[req[r1].body] /\ db[j].prompt = Normal[req[r2].body]
       /\ db[i].s3Url = req[r1].resp.url /\ db[j].s3Url = req[r2].resp.url
       /\ db[i].s3Url # db[j].s3Url

C3_BothGenerate ==
    \A r1, r2 \in Req :
       ( /\ r1 # r2
         /\ Normal[req[r1].body] = Normal[req[r2].body]
         /\ Missed(r1) /\ Missed(r2) )
       => /\ req[r1].llmCalls = 1 /\ req[r2].llmCalls = 1
          /\ (Answered(r1, 200) /\ Answered(r2, 200)) =>
               /\ ~req[r1].resp.cached /\ ~req[r2].resp.cached
               /\ req[r1].uploads = 1 /\ req[r2].uploads = 1
               /\ req[r1].dbWrites = 1 /\ req[r2].dbWrites = 1
               /\ req[r1].resp.url # req[r2].resp.url
               /\ (req[r1].saved /\ req[r2].saved) => TwoRows(r1, r2)

C3_Witness ==
    \E r1, r2 \in Req :
       /\ r1 # r2
       /\ Missed(r1) /\ Missed(r2)
       /\ req[r1].arrived = req[r2].arrived
       /\ req[r1].saved /\ req[r2].saved
       /\ TwoRows(r1, r2)

(***************************************************************************)
(* C4: no step of a generate, stats or dashboard request deletes a row or  *)
(* changes the prompt, URL, owner or creation time of one; the download    *)
(* count of a row never shrinks and is at least 1.                         *)
(***************************************************************************)
C4_Step ==
    \A i \in 1..Len(db) :
       /\ i <= Len(db')
       /\ db'[i].id = db[i].id
       /\ db'[i].prompt = db[i].prompt
       /\ db'[i].s3Url = db[i].s3Url
       /\ db'[i].userId = db[i].userId
       /\ db'[i].createdAt = db[i].createdAt
       /\ db'[i].downloads >= db[i].downloads

C4_InsertIncrementOnly ==
    /\ [](\A i \in 1..Len(db) : db[i].downloads >= 1)
    /\ [][C4_Step]_vars

C4_Witness ==
    /\ page.kind = "dashboard"
    /\ Len(db) >= 2
    /\ \E i \in 1..Len(db) : db[i].downloads > 1

(***************************************************************************)
(* C5: outside development and with the database available, no user owns   *)
(* more than MAX_DAILY_GENERATIONS rows created since the start of the     *)
(* current day.                                                            *)
(***************************************************************************)
TodayStart == (now \div DayLen) * DayLen

OwnedSince(userId, t) ==
    Cardinality({i \in 1..Len(db) : db[i].userId = userId /\ db[i].createdAt >= t})

C5_DailyCap ==
    (env # "development" /\ \A r \in Req : req[r].dbAvailable)
    => \A u \in Users : OwnedSince(u, TodayStart) <= MAX_DAILY_GENERATIONS

(***************************************************************************)
(* C6: outside development, a signed-in user's request whose count settles *)
(* is answered 429 "Daily limit reached" exactly when the user owns at     *)
(* least MAX_DAILY_GENERATIONS rows created since the midnight before the  *)
(* request; the count comes before the cache lookup, and a rejected        *)
(* request makes no lookup, LLM call, upload or write.                     *)
(***************************************************************************)
WritesOf(r) == {w \in pending : w.req = r}

C6_Rejected(r) ==
    Answered(r, 429) =>
       /\ req[r].resp = Error("Daily limit reached", 429)
       /\ env # "development"
       /\ req[r].userId # NoUser
       /\ req[r].dbReads = 1
       /\ req[r].globalTemplate = NoTemplate
       /\ req[r].llmCalls = 0 /\ req[r].uploads = 0
       /\ req[r].dbWrites = 0 /\ WritesOf(r) = {}

C6_StartStep(r) ==
    (req[r].pc = "idle" /\ req'[r].pc \in {"count", "lookup"}) =>
       /\ req'[r].pc = "count" <=> req'[r].userId # NoUser
       /\ req'[r].pc = "count" => req'[r].today = TodayStart

C6_CountStep(r) ==
    (req[r].pc = "count" /\ req'[r].pc # "count" /\ req'[r].dbAvailable) =>
       /\ req'[r].resp.status = 429
            <=> ( /\ env # "development"
                  /\ OwnedSince(req[r].userId, req[r].today) >= MAX_DAILY_GENERATIONS )
       /\ req'[r].resp.status = 429 => db' = db /\ pending' = pending
       /\ req'[r].resp.status # 429 => req'[r].pc = "lookup"

C6_RateLimit ==
    /\ [](\A r \in Req : C6_Rejected(r))
    /\ [][\A r \in Req : C6_StartStep(r) /\ C6_CountStep(r)]_vars

C6_Witness ==
    \E r \in Req :
       /\ Answered(r, 429)
       /\ StoredFor(Normal[req[r].body]) # {}

(***************************************************************************)
(* C7: a prompt that is missing, not a string or empty is answered 400     *)
(* "Invalid prompt", one longer than MAX_PROMPT_LENGTH 400 "Prompt too     *)
(* long", in both cases without a database call, LLM call or upload.       *)
(***************************************************************************)
C7_Validation ==
    \A r \in Req :
       Started(r) =>
          /\ (req[r].body.kind # "string" \/ Len(req[r].body.val) = 0) =>
                /\ Done(r) /\ req[r].resp = Error("Invalid prompt", 400)
                /\ NoCalls(r) /\ WritesOf(r) = {}
          /\ (req[r].body.kind = "string"
                /\ Len(req[r].body.val) > MAX_PROMPT_LENGTH) =>
                /\ Done(r) /\ req[r].resp = Error("Prompt too long", 400)
                /\ NoCalls(r) /\ WritesOf(r) = {}

C7_Witness ==
    \E r1, r2 \in Req :
       /\ Answered(r1, 400) /\ req[r1].body.kind = "undefined"
       /\ Answered(r2, 400) /\ Len(req[r2].body.val) = MAX_PROMPT_LENGTH + 1

(***************************************************************************)
(* C8: a prompt that is empty after normalization is answered 400 and      *)
(* causes no cache lookup, LLM call, upload or insert.                     *)
(***************************************************************************)
C8_BlankRejected ==
    \A r \in Req :
       (Accepted(r) /\ Normal[req[r].body] = <<>>) =>
          /\ req[r].llmCalls = 0 /\ req[r].uploads = 0 /\ req[r].dbWrites = 0
          /\ Done(r) => req[r].resp.status = 400

(***************************************************************************)
(* C9: when the LLM call throws, returns empty content or content that is  *)
(* not JSON, or the upload reports an error, the request is answered 500   *)
(* "Failed to generate project", and it has written nothing: no row is     *)
(* its, no write of its is under way, and the step that fails it leaves    *)
(* the table as it was.                                                    *)
(***************************************************************************)
GenerationFailed(r) ==
    \/ req[r].content \in {"throws", "empty", "not json"}
    \/ req[r].uploadError = "error"

C9_NoTrace(r) ==
    GenerationFailed(r) =>
       /\ Done(r) /\ req[r].resp = Error("Failed to generate project", 500)
       /\ req[r].globalTemplate = NoTemplate
       /\ req[r].dbWrites = 0 /\ ~req[r].saved /\ WritesOf(r) = {}
       /\ req[r].fileName # EmptyUrl =>
            \A i \in 1..Len(db) : db[i].s3Url # req[r].fileName

C9_FailStep(r) ==
    (req[r].resp.status # 500 /\ req'[r].resp.status = 500) => db' = db

C9_GenerationFailure ==
    /\ [](\A r \in Req : C9_NoTrace(r))
    /\ [][\A r \in Req : C9_FailStep(r)]_vars

C9_Witness ==
    \E r1, r2 \in Req :
       /\ Answered(r1, 500) /\ req[r1].uploadError = "error"
       /\ Answered(r2, 500) /\ req[r2].content = "not json"
       /\ db # <<>>

(***************************************************************************)
(* C10: a request that found the database failing in the count or in the   *)
(* lookup is not rejected and not failed for it: it goes on as a cache     *)
(* miss, calls the LLM, attempts no database write, and a successful       *)
(* generation answers {url, cached: false}.                                *)
(***************************************************************************)
C10_SafeMode ==
    \A r \in Req :
       (Started(r) /\ ~req[r].dbAvailable) =>
          /\ Accepted(r)
          /\ req[r].pc \in {"llm", "upload", "done"}
          /\ req[r].globalTemplate = NoTemplate
          /\ req[r].llmCalls = 1
          /\ req[r].dbWrites = 0 /\ ~req[r].saved /\ WritesOf(r) = {}
          /\ \A i \in 1..Len(db) : db[i].s3Url # req[r].fileName
          /\ Done(r) =>
               IF req[r].content = "ok" /\ req[r].uploadError = "null"
               THEN req[r].resp = Json(req[r].fileName, FALSE)
               ELSE req[r].resp = Error("Failed to generate project", 500)

C10_Witness ==
    \E r \in Req :
       /\ ~req[r].dbAvailable
       /\ req[r].dbReads = 2
       /\ StoredFor(Normal[req[r].body]) # {}
       /\ Answered(r, 200) /\ ~req[r].resp.cached

(***************************************************************************)
(* C11: when the LLM is asked, for every key of TECH_RULES the text of its *)
(* rule is in the system prompt exactly when the normalized prompt         *)
(* contains the key, or the key is node or typescript and the normalized   *)
(* prompt contains "node", "typescript", "express" or "nest", or the key   *)
(* is nestjs and the normalized prompt contains "nest"; so the texts       *)
(* depend on the normalized prompt alone, whoever asks and whatever is     *)
(* stored.                                                                 *)
(***************************************************************************)
\* k occurs in p
Occurs(k, p) ==
    \E i \in 0..(Len(p) - Len(k)) : \A j \in 1..Len(k) : p[i + j] = k[j]

\* the texts the system prompt of request r carries
TextsSent(r) == {req[r].specificRules[i].text : i \in DOMAIN req[r].specificRules}

\* the keys whose rule the normalized prompt p calls for
Called(p) ==
    {k \in DOMAIN TECH_RULES :
        \/ Occurs(k, p)
        \/ /\ k \in {node, typescript}
           /\ \E t \in {node, typescript, express, nest} : Occurs(t, p)
        \/ k = nestjs /\ Occurs(nest, p)}

CalledFor == [b \in RuleBodies |-> Called(Normal[b])]

C11_RuleInjection ==
    \A r \in Req :
       req[r].llmCalls > 0 /\ req[r].body \in RuleBodies =>
          \A k \in DOMAIN TECH_RULES :
             TECH_RULES[k] \in TextsSent(r) <=> k \in CalledFor[req[r].body]

\* the LLM was asked for "Express, MongoDB": the mongodb rule is sent for the
\* key in the prompt, the node and typescript rules for "express", and no
\* rule for nestjs or python
C11_Witness ==
    \E r \in Req :
       /\ req[r].llmCalls > 0
       /\ req[r].body \in RuleBodies
       /\ req[r].globalTemplate = NoTemplate
       /\ Occurs(mongodb, Normal[req[r].body])
       /\ Occurs(express, Normal[req[r].body])
       /\ ~Occurs(node, Normal[req[r].body])
       /\ {TECH_RULES[mongodb], TECH_RULES[node], TECH_RULES[typescript]}
             \subseteq TextsSent(r)
       /\ TECH_RULES[nestjs] \notin TextsSent(r)
       /\ TECH_RULES[python] \notin TextsSent(r)

(***************************************************************************)
(* C12: GET /api/stats answers with count equal to the sum of downloads    *)
(* over all stored records, 0 when nothing is stored, or, when the query   *)
(* fails, with count 0 and status 500; it changes no record.               *)
(***************************************************************************)
\* the downloads of the first n rows, added up
RECURSIVE DownloadsUpTo(_)
DownloadsUpTo(n) == IF n = 0 THEN 0 ELSE DownloadsUpTo(n - 1) + db[n].downloads

\* a step that answers a stats request
StatsAnswers == page' # page /\ page'.kind = "stats"

C12_StatsStep ==
    StatsAnswers =>
       /\ db' = db
       /\ pending' = pending
       /\ \/ /\ page'.status = 200
             /\ page'.count = DownloadsUpTo(Len(db))
             /\ db = <<>> => page'.count = 0
          \/ page'.status = 500 /\ page'.count = 0

C12_Stats == [][C12_StatsStep]_vars

\* the answer counts 3 downloads, as stored: a generation and a signed-in
\* cache hit, whose copy and whose increment both reached the table
C12_Witness ==
    /\ page.kind = "stats"
    /\ page.status = 200
    /\ page.count = 3
    /\ Len(db) = 2
    /\ DownloadsUpTo(Len(db)) = 3

(***************************************************************************)
(* C13: the dashboard of a signed-in user lists exactly the records that   *)
(* user owns, each once, newest first, and never a record of another user  *)
(* or of nobody; a visitor who is not signed in gets the redirect and no   *)
(* record.                                                                 *)
(***************************************************************************)
OwnedBy(userId) == {i \in 1..Len(db) : db[i].userId = userId}
Listed(p) == {p.projects[k] : k \in DOMAIN p.projects}

\* every listing is for a signed-in user and holds that user's records only
C13_OwnOnly ==
    /\ page.kind = "dashboard" =>
          /\ page.userId \in Users
          /\ Listed(page) \subseteq OwnedBy(page.userId)
    /\ page.userId = NoUser => page.kind \in {"none", "stats", "redirect"}
    /\ page.kind # "dashboard" => page.projects = <<>>

\* a step that renders the dashboard, or redirects
C13_DashboardStep ==
    /\ page' # page /\ page'.kind = "dashboard" =>
          /\ db' = db
          /\ Listed(page') = OwnedBy(page'.userId)
          /\ Len(page'.projects) = Cardinality(OwnedBy(page'.userId))
          /\ \A k, l \in DOMAIN page'.projects :
                k < l => db[page'.projects[k]].createdAt >= db[page'.projects[l]].createdAt
    /\ page' # page /\ page'.kind = "redirect" =>
          db' = db /\ page'.userId = NoUser /\ page'.projects = <<>>

C13_DashboardIsolation == []C13_OwnOnly /\ [][C13_DashboardStep]_vars

\* a user's dashboard lists a record of theirs while the table also holds a
\* record of another owner, which is not listed
C13_Witness ==
    /\ page.kind = "dashboard"
    /\ page.projects # <<>>
    /\ Listed(page) = OwnedBy(page.userId)
    /\ \E i \in 1..Len(db) : db[i].userId # page.userId /\ i \notin Listed(page)

(***************************************************************************)
(* C14: the cache is global.  For two requests with the same normalized    *)
(* prompt whose lookups run against the same table, a miss is possible for *)
(* one exactly when it is for the other, and a hit that serves a URL is    *)
(* possible for one exactly when it is for the other, whoever the two      *)
(* requesters are.                                                         *)
(***************************************************************************)
\* the lookup of request r can settle now as a hit that answers with url
CanHit(r, url) == ENABLED (LookupReturn(r) /\ req'[r].resp = Json(url, TRUE))

\* the lookup of request r can settle now as a miss
CanMiss(r) ==
    ENABLED (LookupReturn(r) /\ req'[r].dbAvailable /\ req'[r].pc = "llm")

StoredUrls == {db[i].s3Url : i \in 1..Len(db)}

C14_GlobalCache ==
    \A r1, r2 \in Req :
       /\ req[r1].pc = "lookup" /\ req[r2].pc = "lookup"
       /\ Normal[req[r1].body] = Normal[req[r2].body]
       => /\ CanMiss(r1) <=> CanMiss(r2)
          /\ CanMiss(r1) <=> \A url \in StoredUrls : ~CanHit(r1, url)
          /\ \A url \in StoredUrls : CanHit(r1, url) <=> CanHit(r2, url)

\* two requests of different requesters were both served, from the cache, the
\* URL of a record that a third party owns
C14_Witness ==
    \E r1, r2 \in Req :
       /\ req[r1].userId # req[r2].userId
       /\ Answered(r1, 200) /\ Answered(r2, 200)
       /\ req[r1].resp.cached /\ req[r2].resp.cached
       /\ req[r1].resp.url = req[r2].resp.url
       /\ req[r1].resp.url # EmptyUrl
       /\ req[r1].body # req[r2].body
       /\ db[req[r1].globalTemplate.id].userId \notin {req[r1].userId, req[r2].userId}
       /\ db[req[r2].globalTemplate.id].userId \notin {req[r1].userId, req[r2].userId}

(***************************************************************************)
(* C15: once the QA runner has finished with no failure (its summary says  *)
(* PERFECT, the cache is warmed up) and a template of every scenario of    *)
(* the run is stored, a generate request for one of the SCENARIOS prompts  *)
(* that arrives after those templates were stored, and whose lookup        *)
(* settles, is served from the cache.                                      *)
(***************************************************************************)
ScenarioBodies == {Str(SCENARIOS[i]) : i \in DOMAIN SCENARIOS}

\* the run left a record with a URL for every prompt it posted
RunStored ==
    \A i \in DOMAIN Scenarios :
       \E j \in 1..Len(db) :
          /\ db[j].prompt = Core(UniquePrompt(Scenarios[i], db[j].createdAt))
          /\ db[j].s3Url # EmptyUrl

C15_LookupStep(r) ==
    /\ qa.pc = "done" /\ qa.summary = "PERFECT"
    /\ req[r].body \in ScenarioBodies
    /\ req[r].arrived >= Len(Scenarios)
    /\ LookupSettles(r)
    /\ RunStored
    => /\ req'[r].resp = Json(req'[r].globalTemplate.s3Url, TRUE)
       /\ req'[r].llmCalls = 0

C15_CacheWarmed == [][\A r \in Req : C15_LookupStep(r)]_vars

====
